---------------------------- MODULE Spec2Model ----------------------------
(***************************************************************************)
(* Model of the retry / error-classification core of                      *)
(* src/error_handling_examples.py: ErrorType, APIError, RetryStrategy      *)
(* (should_retry, get_delay), ErrorHandler.handle_error and                 *)
(* RobustAPIClient (_classify_error, _make_request_with_retry); of         *)
(* APIClient (src/api_client_example.py); and of the paging of             *)
(* ExternalApiClient.list_all_items (src/app/client.py) through the mock   *)
(* upstream (src/mock_external/main.py).                                   *)
(*                                                                         *)
(* Conventions.                                                            *)
(*  - Optional[T] is a sequence of length 0 (None) or 1 (a value).         *)
(*  - A Python str that the code parses is a sequence of one-character     *)
(*    strings; a str that is only carried around is a TLA+ string.         *)
(*  - Delays are exact rationals.  base_delay, max_delay and               *)
(*    backoff_factor take integral values (seconds); the value returned    *)
(*    by get_delay is counted in ticks of 1/TicksPerSecond second, chosen  *)
(*    so that the jitter term of line 89 is an integer number of ticks.    *)
(*  - time.time() % 1 is frac / FracDen with frac in 0..FracDen-1.         *)
(***************************************************************************)
EXTENDS Integers, Sequences, FiniteSets, TLC

VARIABLES
    strategy,   \* the RetryStrategy (shared by every request flow)
    error,      \* the APIError at hand when the strategy is called directly
    last,       \* the last direct call and what it returned
    pc,         \* per request flow: idle, request, callback_wait, delay,
                \* wait or done
    cur_attempt, \* per flow: the loop variable `attempt` of
                \* _make_request_with_retry
    requests,   \* per flow: number of session.request calls made
    trace,      \* per flow: the transport outcomes received, in order
    decision,   \* per flow: the classified error of the current attempt and
                \* what should_retry returned for it
    sleeps,     \* per flow: durations of the time.sleep calls made since
                \* the last request, in ticks
    result,     \* per flow: the dict returned to the caller, once returned
    caller,     \* per flow: what the code that called the client is doing:
                \* waiting for the call to return, or gave_up
    FAKE_DB,    \* mock_external: the items of the upstream store, in order
    page_size,  \* list_all_items: its argument
    next_cursor, \* list_all_items: its local next_cursor
    yielded,    \* list_all_items: the items yielded so far, in order
    page_pc,    \* list_all_items: idle, fetch (about to request a page) or
                \* done (the generator is exhausted)
    cursors,    \* list_all_items: the cursor argument of every page request
                \* made so far, in order
    creating    \* mock_external: per create_item call in progress, the item
                \* it has built and not yet appended

callvars == <<error, last>>

flowvars == <<pc, cur_attempt, requests, trace, decision, sleeps, result>>

pagevars == <<FAKE_DB, page_size, next_cursor, yielded, page_pc, cursors,
              creating>>

vars == <<strategy, error, last, pc, cur_attempt, requests, trace, decision,
          sleeps, result, caller, FAKE_DB, page_size, next_cursor, yielded,
          page_pc, cursors, creating>>

-----------------------------------------------------------------------------
(* Bounds of the model *)

\* largest attempt number passed to should_retry / get_delay
MaxAttempt == 10

\* resolution of the clock fraction time.time() % 1
FracDen == 4

\* number of request flows sharing one RobustAPIClient
NumFlows == 2

\* number of create_item calls the upstream serves at the same time
NumCreators == 2

-----------------------------------------------------------------------------
(* Optional values *)

None == <<>>

Some(v) == <<v>>

Get(o) == o[1]

\* Python truthiness of an Optional[int]: None and 0 are falsy
Truthy(o) == o # None /\ Get(o) # 0

-----------------------------------------------------------------------------
(* class ErrorType(Enum) *)

NETWORK_ERROR == "network_error"

TIMEOUT_ERROR == "timeout_error"

AUTHENTICATION_ERROR == "auth_error"

AUTHORIZATION_ERROR == "authorization_error"

RATE_LIMIT_ERROR == "rate_limit_error"

SERVER_ERROR == "server_error"

CLIENT_ERROR == "client_error"

VALIDATION_ERROR == "validation_error"

UNKNOWN_ERROR == "unknown_error"

ErrorType ==
    { NETWORK_ERROR, TIMEOUT_ERROR, AUTHENTICATION_ERROR, AUTHORIZATION_ERROR,
      RATE_LIMIT_ERROR, SERVER_ERROR, CLIENT_ERROR, VALIDATION_ERROR,
      UNKNOWN_ERROR }

\* @dataclass APIError (timestamp is not modelled: nothing reads it)
APIError(error_type, message, status_code, retry_after, original_exception) ==
    [ error_type |-> error_type,
      message |-> message,
      status_code |-> status_code,
      retry_after |-> retry_after,
      original_exception |-> original_exception ]

-----------------------------------------------------------------------------
(* class RetryStrategy *)

DefaultMaxRetries == 3

DefaultBaseDelay == 1

DefaultMaxDelay == 60

DefaultBackoffFactor == 2

RetryStrategy(max_retries, base_delay, max_delay, backoff_factor) ==
    [ max_retries |-> max_retries,
      base_delay |-> base_delay,
      max_delay |-> max_delay,
      backoff_factor |-> backoff_factor ]

DefaultStrategy ==
    RetryStrategy(DefaultMaxRetries, DefaultBaseDelay, DefaultMaxDelay,
                  DefaultBackoffFactor)

\* faulty variant: rate limiting left out of the retryable kinds
retryable_errors_without_rate_limit ==
    { NETWORK_ERROR, TIMEOUT_ERROR, SERVER_ERROR }

\* faulty variant: 403 treated as retryable
retryable_errors_with_authorization ==
    { NETWORK_ERROR, TIMEOUT_ERROR, SERVER_ERROR, RATE_LIMIT_ERROR,
      AUTHORIZATION_ERROR }

\* faulty variant: server errors left out of the retryable kinds
retryable_errors_without_server ==
    { NETWORK_ERROR, TIMEOUT_ERROR, RATE_LIMIT_ERROR }

\* the list retryable_errors of should_retry
retryable_errors ==
    { NETWORK_ERROR, TIMEOUT_ERROR, SERVER_ERROR, RATE_LIMIT_ERROR }

\* faulty variant: one attempt too many (> for >=)
should_retry_off_by_one(self, err, attempt) ==
    IF attempt > self.max_retries THEN FALSE
    ELSE IF err.error_type = CLIENT_ERROR /\ err.status_code # Some(429)
         THEN FALSE
    ELSE IF err.error_type = AUTHENTICATION_ERROR THEN FALSE
    ELSE err.error_type \in retryable_errors

\* faulty variant: only the attempt number is looked at
should_retry_ignoring_kind(self, err, attempt) ==
    attempt < self.max_retries

\* faulty variant: a client error carrying status 429 is retried, as the
\* comment of line 59 suggests
should_retry_client_429(self, err, attempt) ==
    IF attempt >= self.max_retries THEN FALSE
    ELSE IF err.error_type = CLIENT_ERROR
    THEN err.status_code = Some(429)
    ELSE IF err.error_type = AUTHENTICATION_ERROR THEN FALSE
    ELSE err.error_type \in retryable_errors

\* RetryStrategy.should_retry(error, attempt)
should_retry(self, err, attempt) ==
    IF attempt >= self.max_retries THEN FALSE
    ELSE IF err.error_type = CLIENT_ERROR /\ err.status_code # Some(429)
         THEN FALSE
    ELSE IF err.error_type = AUTHENTICATION_ERROR THEN FALSE
    ELSE err.error_type \in retryable_errors

RECURSIVE Pow(_, _)
Pow(b, n) == IF n = 0 THEN 1 ELSE b * Pow(b, n - 1)

Min(a, b) == IF a <= b THEN a ELSE b

\* ticks per second: 1 / (0.1 * 0.5 / FracDen) = 20 * FracDen
TicksPerSecond == 20 * FracDen

\* faulty variant: the cap min(..., max_delay) forgotten
backoff_delay_uncapped(self, attempt) ==
    self.base_delay * Pow(self.backoff_factor, attempt)

\* the local `delay` of get_delay, in seconds
backoff_delay(self, attempt) ==
    Min(self.base_delay * Pow(self.backoff_factor, attempt), self.max_delay)

\* faulty variant: jitter factor 0.2 for 0.1
jitter_wide(delay, frac) == delay * 2 * (FracDen - 2 * frac)

\* the local `jitter` of get_delay, in ticks:
\* delay * 0.1 * (0.5 - frac/FracDen) s = delay * (FracDen - 2*frac) ticks
jitter(delay, frac) == delay * (FracDen - 2 * frac)

\* get_delay(attempt, error) with time.time() % 1 = frac / FracDen;
\* the result is in ticks
get_delay(self, attempt, err, frac) ==
    IF err.error_type = RATE_LIMIT_ERROR /\ Truthy(err.retry_after)
    THEN Get(err.retry_after) * TicksPerSecond
    ELSE LET delay == backoff_delay(self, attempt)
         IN  delay * TicksPerSecond + jitter(delay, frac)

-----------------------------------------------------------------------------
(* Exceptions: instances of requests.exceptions classes or of builtins *)

\* superclasses of each exception class used as input (each class included);
\* requests.exceptions.ConnectTimeout derives from ConnectionError and Timeout
Bases(cls) ==
    CASE cls = "Timeout" -> {"Timeout", "RequestException", "Exception"}
      [] cls = "ReadTimeout" ->
             {"ReadTimeout", "Timeout", "RequestException", "Exception"}
      [] cls = "ConnectionError" ->
             {"ConnectionError", "RequestException", "Exception"}
      [] cls = "ConnectTimeout" ->
             {"ConnectTimeout", "ConnectionError", "Timeout",
              "RequestException", "Exception"}
      [] cls = "ValueError" -> {"ValueError", "Exception"}
      [] cls = "RuntimeError" -> {"RuntimeError", "Exception"}

\* an exception object: its class and its str()
Exc(cls, msg) == [cls |-> cls, msg |-> msg]

\* isinstance(exception, cls) for an Optional exception; None is no instance
isinstance(exception, cls) ==
    exception # None /\ cls \in Bases(Get(exception).cls)

\* str(exception); str(None) is "None"
str(exception) == IF exception = None THEN "None" ELSE Get(exception).msg

-----------------------------------------------------------------------------
(* int(str): Python's integer parsing of a character sequence *)

Whitespace == {" ", "\t", "\n", "\r"}

DigitChars == <<"0", "1", "2", "3", "4", "5", "6", "7", "8", "9">>

IsDigit(c) == \E i \in 1..Len(DigitChars) : DigitChars[i] = c

DigitVal(c) == (CHOOSE i \in 1..Len(DigitChars) : DigitChars[i] = c) - 1

RECURSIVE lstrip(_)
lstrip(s) ==
    IF s # <<>> /\ Head(s) \in Whitespace THEN lstrip(Tail(s)) ELSE s

RECURSIVE rstrip(_)
rstrip(s) ==
    IF s # <<>> /\ s[Len(s)] \in Whitespace
    THEN rstrip(SubSeq(s, 1, Len(s) - 1))
    ELSE s

strip(s) == rstrip(lstrip(s))

\* a decimal literal: digits, with single underscores between digits
IsDecimal(s) ==
    /\ s # <<>>
    /\ IsDigit(s[1])
    /\ IsDigit(s[Len(s)])
    /\ \A i \in 1..Len(s) : IsDigit(s[i]) \/ s[i] = "_"
    /\ \A i \in 1..(Len(s) - 1) : ~(s[i] = "_" /\ s[i + 1] = "_")

RECURSIVE DecimalValue(_, _)
DecimalValue(s, acc) ==
    IF s = <<>> THEN acc
    ELSE IF Head(s) = "_" THEN DecimalValue(Tail(s), acc)
    ELSE DecimalValue(Tail(s), 10 * acc + DigitVal(Head(s)))

\* int(s): [ok |-> TRUE, value |-> n], or ok = FALSE when ValueError is raised
int(s) ==
    LET t == strip(s)
        signed == t # <<>> /\ Head(t) \in {"+", "-"}
        body == IF signed THEN Tail(t) ELSE t
        magnitude == DecimalValue(body, 0)
    IN  IF IsDecimal(body)
        THEN [ok |-> TRUE,
              value |-> IF signed /\ Head(t) = "-" THEN 0 - magnitude
                        ELSE magnitude]
        ELSE [ok |-> FALSE, value |-> 0]

-----------------------------------------------------------------------------
(* requests.Response as far as _classify_error reads it *)

\* headers: a sequence of <<name, value>> pairs
Response(status_code, headers) ==
    [status_code |-> status_code, headers |-> headers]

\* response.headers.get(key): Optional value of the first header named key
headers_get(headers, key) ==
    IF \E i \in 1..Len(headers) : headers[i][1] = key
    THEN Some(headers[CHOOSE i \in 1..Len(headers) :
                        /\ headers[i][1] = key
                        /\ \A j \in 1..(i - 1) : headers[j][1] # key][2])
    ELSE None

RetryAfterDefault == 60

-----------------------------------------------------------------------------
(* RobustAPIClient._classify_error *)

\* outcome of a call: a returned APIError, or a raised exception class
Return(v) == [raised |-> None, value |-> Some(v)]

Raise(cls) == [raised |-> Some(cls), value |-> None]

\* int(response.headers.get('Retry-After', 60))
retry_after_of(response) ==
    LET h == headers_get(response.headers, "Retry-After")
    IN  IF h = None THEN [ok |-> TRUE, value |-> RetryAfterDefault]
        ELSE int(Get(h))

\* lines 235-239: the final return
unknown_error(exception) ==
    Return(APIError(UNKNOWN_ERROR, str(exception), None, None, exception))

\* faulty variant: no default for an absent Retry-After header
classify_response_no_default(exception, response) ==
    LET status_code == response.status_code
    IN  IF status_code = 401
        THEN Return(APIError(AUTHENTICATION_ERROR, "Authentication failed",
                             Some(status_code), None, None))
        ELSE IF status_code = 403
        THEN Return(APIError(AUTHORIZATION_ERROR, "Access forbidden",
                             Some(status_code), None, None))
        ELSE IF status_code = 429
        THEN LET h == headers_get(response.headers, "Retry-After")
             IN  IF h = None
                 THEN Return(APIError(RATE_LIMIT_ERROR, "Rate limit exceeded",
                                      Some(status_code), None, None))
                 ELSE IF int(Get(h)).ok
                 THEN Return(APIError(RATE_LIMIT_ERROR, "Rate limit exceeded",
                                      Some(status_code),
                                      Some(int(Get(h)).value), None))
                 ELSE Raise("ValueError")
        ELSE IF 400 <= status_code /\ status_code < 500
        THEN Return(APIError(CLIENT_ERROR,
                             "Client error: " \o ToString(status_code),
                             Some(status_code), None, None))
        ELSE IF 500 <= status_code /\ status_code < 600
        THEN Return(APIError(SERVER_ERROR,
                             "Server error: " \o ToString(status_code),
                             Some(status_code), None, None))
        ELSE unknown_error(exception)

\* lines 195-233: the branch taken when response is not None
classify_response(exception, response) ==
    LET status_code == response.status_code
    IN  IF status_code = 401
        THEN Return(APIError(AUTHENTICATION_ERROR, "Authentication failed",
                             Some(status_code), None, None))
        ELSE IF status_code = 403
        THEN Return(APIError(AUTHORIZATION_ERROR, "Access forbidden",
                             Some(status_code), None, None))
        ELSE IF status_code = 429
        THEN LET retry_after == retry_after_of(response)
             IN  IF retry_after.ok
                 THEN Return(APIError(RATE_LIMIT_ERROR, "Rate limit exceeded",
                                      Some(status_code),
                                      Some(retry_after.value), None))
                 ELSE Raise("ValueError")
        ELSE IF 400 <= status_code /\ status_code < 500
        THEN Return(APIError(CLIENT_ERROR,
                             "Client error: " \o ToString(status_code),
                             Some(status_code), None, None))
        ELSE IF 500 <= status_code /\ status_code < 600
        THEN Return(APIError(SERVER_ERROR,
                             "Server error: " \o ToString(status_code),
                             Some(status_code), None, None))
        ELSE unknown_error(exception)

\* faulty variant: ConnectionError tested before Timeout
classify_error_connection_first(exception, response) ==
    IF isinstance(exception, "ConnectionError")
    THEN Return(APIError(NETWORK_ERROR, "Connection error", None, None,
                         exception))
    ELSE IF isinstance(exception, "Timeout")
    THEN Return(APIError(TIMEOUT_ERROR, "Request timeout", None, None,
                         exception))
    ELSE IF response # None
    THEN classify_response(exception, Get(response))
    ELSE unknown_error(exception)

\* _classify_error(exception, response): both arguments Optional
classify_error(exception, response) ==
    IF isinstance(exception, "Timeout")
    THEN Return(APIError(TIMEOUT_ERROR, "Request timeout", None, None,
                         exception))
    ELSE IF isinstance(exception, "ConnectionError")
    THEN Return(APIError(NETWORK_ERROR, "Connection error", None, None,
                         exception))
    ELSE IF response # None
    THEN classify_response(exception, Get(response))
    ELSE unknown_error(exception)


-----------------------------------------------------------------------------
(* time.sleep and ErrorHandler *)

\* time.sleep(seconds) raises ValueError for a negative argument
sleep_raises(ticks) == ticks < 0

SleepError == Exc("ValueError", "sleep length must be non-negative")

\* the error types with a callback registered by _setup_error_callbacks
error_callbacks == {AUTHENTICATION_ERROR, RATE_LIMIT_ERROR, SERVER_ERROR}

\* the registered callback raises: handle_rate_limit calls
\* time.sleep(error.retry_after), a TypeError for None and a ValueError for a
\* negative value; the other two callbacks only log
callback_raises(err) ==
    /\ err.error_type = RATE_LIMIT_ERROR
    /\ (err.retry_after = None \/ sleep_raises(Get(err.retry_after)))

\* the sleep made inside the registered callback, in ticks (None: no sleep)
callback_sleep(err) ==
    IF /\ err.error_type \in error_callbacks
       /\ err.error_type = RATE_LIMIT_ERROR
       /\ ~callback_raises(err)
    THEN Some(Get(err.retry_after) * TicksPerSecond)
    ELSE None

\* faulty variant: the default handling gives up on a rate limit
default_error_handling_no_rate_limit(err) ==
    IF err.error_type = AUTHENTICATION_ERROR THEN FALSE
    ELSE IF err.error_type = SERVER_ERROR THEN TRUE
    ELSE IF err.error_type = NETWORK_ERROR THEN TRUE
    ELSE FALSE

\* ErrorHandler._default_error_handling
default_error_handling(err) ==
    IF err.error_type = AUTHENTICATION_ERROR THEN FALSE
    ELSE IF err.error_type = RATE_LIMIT_ERROR THEN TRUE
    ELSE IF err.error_type = SERVER_ERROR THEN TRUE
    ELSE IF err.error_type = NETWORK_ERROR THEN TRUE
    ELSE FALSE

\* ErrorHandler.handle_error: True when the callback ran to its end,
\* otherwise the default handling
handle_error(err) ==
    IF err.error_type \in error_callbacks /\ ~callback_raises(err)
    THEN TRUE
    ELSE default_error_handling(err)

-----------------------------------------------------------------------------
(* RobustAPIClient._make_request_with_retry: one iteration of the loop *)

\* a transport outcome of session.request: an exception raised, or a
\* response received (json_ok: response.json() decodes the body)
Raised(exception) ==
    [exception |-> Some(exception), response |-> None, json_ok |-> FALSE]

Received(response, json_ok) ==
    [exception |-> None, response |-> Some(response), json_ok |-> json_ok]

\* the dicts returned to the caller; a key that is absent is None
success_result(response) ==
    [success |-> TRUE, error |-> None, error_type |-> None,
     status_code |-> Some(response.status_code)]

failure_with_status(err) ==
    [success |-> FALSE, error |-> Some(err.message),
     error_type |-> Some(err.error_type), status_code |-> err.status_code]

failure_result(err) ==
    [success |-> FALSE, error |-> Some(err.message),
     error_type |-> Some(err.error_type), status_code |-> None]

max_retries_exceeded ==
    [success |-> FALSE, error |-> Some("Max retries exceeded"),
     error_type |-> Some("max_retries_exceeded"), status_code |-> None]

\* lines 315-321: except Exception as e
except_Exception(e) ==
    failure_result(Get(classify_error(Some(e), None).value))

JSONError == Exc("ValueError", "Expecting value")

IntError == Exc("ValueError", "invalid literal for int() with base 10")

\* what one iteration does with its outcome, up to the first time.sleep:
\*   ret      the dict returned, if the iteration returns
\*   error    the classified error, if one was built
\*   retry    what should_retry returned, if it was called
\*   handler  the iteration continues in an except clause
Returns(ret, err, retry) ==
    [ret |-> Some(ret), error |-> err, retry |-> retry, handler |-> FALSE]

Continues(err, handler) ==
    [ret |-> None, error |-> Some(err), retry |-> Some(TRUE),
     handler |-> handler]

\* lines 289-313: except Timeout / except ConnectionError
except_transport(self, att, e) ==
    LET err == Get(classify_error(Some(e), None).value)
    IN  IF ~should_retry(self, err, att)
        THEN Returns(failure_result(err), Some(err), Some(FALSE))
        ELSE Continues(err, TRUE)

\* lines 256-282: a response was received
on_response(self, att, response, json_ok) ==
    IF response.status_code = 200
    THEN IF json_ok
         THEN Returns(success_result(response), None, None)
         ELSE Returns(except_Exception(JSONError), None, None)
    ELSE LET out == classify_error(None, Some(response))
         IN  IF out.raised # None
             THEN Returns(except_Exception(IntError), None, None)
             ELSE LET err == Get(out.value)
                  IN  IF ~should_retry(self, err, att)
                      THEN Returns(failure_with_status(err), Some(err),
                                   Some(FALSE))
                      ELSE IF ~handle_error(err)
                      THEN Returns(failure_with_status(err), Some(err),
                                   Some(TRUE))
                      ELSE Continues(err, FALSE)

\* lines 246-321 up to the first sleep
on_outcome(self, att, outcome) ==
    IF outcome.exception # None
    THEN IF \/ isinstance(outcome.exception, "Timeout")
            \/ isinstance(outcome.exception, "ConnectionError")
         THEN except_transport(self, att, Get(outcome.exception))
         ELSE Returns(except_Exception(Get(outcome.exception)), None, None)
    ELSE on_response(self, att, Get(outcome.response), outcome.json_ok)

\* the caller sees an exception: a time.sleep that raises inside an except
\* clause is not caught by the clauses after it
raised_to_caller(e) ==
    [success |-> FALSE, error |-> Some(e.msg), error_type |-> Some("raised"),
     status_code |-> None]

\* lines 284-287, 298-300, 311-313: delay = get_delay(...); time.sleep(delay).
\* ret: the dict returned when the sleep raises, else None
start_wait(self, att, err, frac, handler) ==
    LET delay == get_delay(self, att, err, frac)
    IN  [delay |-> delay,
         ret |-> IF ~sleep_raises(delay) THEN None
                 ELSE IF handler THEN Some(raised_to_caller(SleepError))
                 ELSE Some(except_Exception(SleepError))]

\* faulty variant: the attempt number kept on the shared client object
frame_shared(f) == 1

\* the call frame holding the local variable `attempt` of flow f: each call
\* of _make_request_with_retry has its own
frame(f) == f

\* faulty variant: range(self.retry_strategy.max_retries)
in_range_short(self, att) == att < self.max_retries

\* faulty variant: the attempt number advanced twice per retry
next_attempt_twice(att) == att + 2

\* faulty variant: the attempt number never advanced
next_attempt_stuck(att) == att

\* for attempt in range(...): the next value of the loop variable
next_attempt(att) == att + 1

\* range(self.retry_strategy.max_retries + 1): the values still to come
in_range(self, att) == att < self.max_retries + 1

-----------------------------------------------------------------------------
(* Inputs *)

\* RetryStrategy configurations: the default one, one that never retries,
\* and two with other delays and factors
Strategies ==
    { DefaultStrategy,
      RetryStrategy(0, 1, 60, 2),
      RetryStrategy(2, 2, 30, 3),
      RetryStrategy(5, 3, 3, 2) }

Attempts == 0..MaxAttempt

Fracs == 0..(FracDen - 1)

\* fields of APIError objects built directly (as the tests and the demo do)
ErrorStatusCodes ==
    {None, Some(400), Some(401), Some(403), Some(404), Some(429), Some(500),
     Some(503)}

ErrorRetryAfters == {None, Some(0), Some(1), Some(60), Some(120)}

ResponseStatusCodes ==
    {100, 200, 302, 399, 400, 401, 403, 404, 429, 499, 500, 503, 599, 600}

\* values of a Retry-After header
RetryAfterValues ==
    { <<"1", "2", "0">>,
      <<"6", "0">>,
      <<"0">>,
      <<" ", "3", "0", " ">>,
      <<"-", "5">>,
      <<"1", "_", "0">>,
      <<>>,
      <<"a", "b", "c">>,
      <<"1", ".", "5">>,
      <<"W", "e", "d", ",", " ", "2", "1", " ", "O", "c", "t", " ", "2", "0",
        "1", "5", " ", "0", "7", ":", "2", "8", ":", "0", "0", " ", "G", "M",
        "T">> }

HeaderSets ==
    { <<>>, << <<"Content-Type", <<"j", "s", "o", "n">> >> >> }
    \cup { << <<"Retry-After", v>> >> : v \in RetryAfterValues }
    \cup { << <<"Content-Type", <<"j", "s", "o", "n">> >>,
              <<"Retry-After", v>> >> : v \in {<<"1", "2", "0">>, <<"a", "b", "c">>} }

Responses ==
    {None} \cup { Some(Response(sc, h)) : sc \in ResponseStatusCodes,
                                          h \in HeaderSets }

Exceptions ==
    { None,
      Some(Exc("Timeout", "timed out")),
      Some(Exc("ReadTimeout", "read timed out")),
      Some(Exc("ConnectionError", "connection refused")),
      Some(Exc("ConnectTimeout", "connect timed out")),
      Some(Exc("ValueError", "bad json")),
      Some(Exc("RuntimeError", "")) }

-----------------------------------------------------------------------------
(* State machine: a RetryStrategy and an APIError are constructed, or the *)
(* error is obtained from _classify_error; then the strategy is consulted. *)

\* APIError objects built directly (as the tests and the demo do)
Errors ==
    { APIError(t, "message", sc, ra, None) :
          t \in ErrorType, sc \in ErrorStatusCodes, ra \in ErrorRetryAfters }

Flows == 1..NumFlows

NoDecision ==
    [error |-> None, retry |-> None, handler |-> FALSE, delay |-> None]

\* the flows in `started` are about to make their first request, the others
\* are not running
FlowsInit(started) ==
    /\ pc = [f \in Flows |-> IF f \in started THEN "request" ELSE "idle"]
    /\ cur_attempt = [f \in Flows |-> 0]
    /\ requests = [f \in Flows |-> 0]
    /\ trace = [f \in Flows |-> <<>>]
    /\ decision = [f \in Flows |-> NoDecision]
    /\ sleeps = [f \in Flows |-> <<>>]
    /\ result = [f \in Flows |-> None]
    /\ caller = [f \in Flows |-> "waiting"]

\* the threads of the upstream's pool that serve create_item
Creators == 1..NumCreators

\* no list_all_items call is running
PagerIdle ==
    /\ FAKE_DB = <<>>
    /\ page_size = 0
    /\ next_cursor = None
    /\ yielded = <<>>
    /\ page_pc = "idle"
    /\ cursors = <<>>
    /\ creating = [t \in Creators |-> None]

\* after construction: a strategy, and either an APIError or none yet
Init ==
    /\ strategy \in Strategies
    /\ error \in {None} \cup { Some(e) : e \in Errors }
    /\ last = [op |-> "init"]
    /\ FlowsInit({})
    /\ PagerIdle

\* error = client._classify_error(exception, response)
ClassifyError(exception, response) ==
    LET out == classify_error(exception, response)
    IN  /\ last.op = "init"
        /\ error = None
        /\ last' = [op |-> "_classify_error", exception |-> exception,
                    response |-> response, raised |-> out.raised,
                    value |-> out.value]
        /\ error' = IF out.raised = None THEN out.value ELSE error
        /\ UNCHANGED <<strategy, flowvars, caller, pagevars>>

\* faulty variant: should_retry uses max_retries as a budget it counts down
ShouldRetry_consuming(attempt) ==
    /\ last.op \in {"init", "_classify_error"}
    /\ error # None
    /\ last' = [op |-> "should_retry", attempt |-> attempt,
                ret |-> should_retry(strategy, Get(error), attempt)]
    /\ strategy' = [strategy EXCEPT !.max_retries = @ - 1]
    /\ UNCHANGED <<error, flowvars, caller, pagevars>>

\* strategy.should_retry(error, attempt)
ShouldRetry(attempt) ==
    /\ last.op \in {"init", "_classify_error"}
    /\ error # None
    /\ last' = [op |-> "should_retry", attempt |-> attempt,
                ret |-> should_retry(strategy, Get(error), attempt)]
    /\ UNCHANGED <<strategy, error, flowvars, caller, pagevars>>

\* strategy.get_delay(attempt, error) at clock fraction frac / FracDen;
\* delay is the un-jittered local (None on the Retry-After path)
GetDelay(attempt, frac) ==
    /\ last.op \in {"init", "_classify_error"}
    /\ error # None
    /\ last' = [op |-> "get_delay", attempt |-> attempt, frac |-> frac,
                delay |-> IF /\ Get(error).error_type = RATE_LIMIT_ERROR
                             /\ Truthy(Get(error).retry_after)
                          THEN None
                          ELSE Some(backoff_delay(strategy, attempt)),
                ret |-> get_delay(strategy, attempt, Get(error), frac)]
    /\ UNCHANGED <<strategy, error, flowvars, caller, pagevars>>

Next ==
    \/ \E e \in Exceptions, r \in Responses : ClassifyError(e, r)
    \/ \E a \in Attempts : ShouldRetry(a)
    \/ \E a \in Attempts, f \in Fracs : GetDelay(a, f)

Spec == Init /\ [][Next]_vars

-----------------------------------------------------------------------------
(* Request flows: RobustAPIClient._make_request_with_retry *)

\* largest number of session.request calls followed per flow (the loop
\* makes at most max_retries + 1)
MaxRequests == 4

\* strategies of the clients whose request flows are followed
FlowStrategies ==
    { DefaultStrategy,
      RetryStrategy(0, 1, 60, 2),
      RetryStrategy(2, 2, 30, 3) }

RetryAfterHeader(v) == << <<"Retry-After", v>> >>

\* transport outcomes of one session.request call
FlowOutcomes ==
    { Received(Response(200, <<>>), TRUE),
      Received(Response(200, <<>>), FALSE),
      Received(Response(204, <<>>), TRUE),
      Received(Response(401, <<>>), TRUE),
      Received(Response(404, <<>>), FALSE),
      Received(Response(500, <<>>), FALSE),
      Received(Response(429, <<>>), FALSE),
      Received(Response(429, RetryAfterHeader(<<"2">>)), FALSE),
      Received(Response(429, RetryAfterHeader(<<"0">>)), FALSE),
      Received(Response(429, RetryAfterHeader(<<"-", "5">>)), FALSE),
      Received(Response(429, RetryAfterHeader(<<"a", "b", "c">>)), FALSE),
      Raised(Exc("Timeout", "timed out")),
      Raised(Exc("ConnectionError", "connection refused")),
      Raised(Exc("ConnectTimeout", "connect timed out")),
      Raised(Exc("ValueError", "bad url")) }

\* the flows of FlowSpec: one flow runs alone
FlowInit ==
    /\ strategy \in FlowStrategies
    /\ error = None
    /\ last = [op |-> "init"]
    /\ FlowsInit({1})
    /\ PagerIdle

\* response = self.session.request(...) and the rest of the iteration up to
\* its return or its first time.sleep (the one of the rate-limit callback,
\* or else the one of the loop, made in StartWait)
SendRequest(f, outcome) ==
    /\ pc[f] = "request"
    /\ requests[f] < MaxRequests
    /\ LET r == on_outcome(strategy, cur_attempt[frame(f)], outcome)
           cb == IF r.ret = None /\ ~r.handler
                 THEN callback_sleep(Get(r.error))
                 ELSE None
       IN  /\ requests' = [requests EXCEPT ![f] = @ + 1]
           /\ trace' = [trace EXCEPT ![f] = Append(@, outcome)]
           /\ decision' = [decision EXCEPT ![f] =
                              [error |-> r.error, retry |-> r.retry,
                               handler |-> r.handler, delay |-> None]]
           /\ result' = [result EXCEPT ![f] = r.ret]
           /\ sleeps' = [sleeps EXCEPT ![f] =
                            IF cb # None THEN <<Get(cb)>> ELSE <<>>]
           /\ pc' = [pc EXCEPT ![f] =
                        IF r.ret # None THEN "done"
                        ELSE IF cb # None THEN "callback_wait"
                        ELSE "delay"]
    /\ UNCHANGED <<strategy, callvars, caller, pagevars, cur_attempt>>

\* the time.sleep of handle_rate_limit returns; handle_error returns True
CallbackWake(f) ==
    /\ pc[f] = "callback_wait"
    /\ pc' = [pc EXCEPT ![f] = "delay"]
    /\ UNCHANGED <<strategy, callvars, caller, pagevars, cur_attempt, requests,
                   trace, decision,
                   sleeps, result>>

\* delay = get_delay(attempt, error) at clock fraction frac / FracDen, then
\* time.sleep(delay) is called
StartWait(f, frac) ==
    /\ pc[f] = "delay"
    /\ LET w == start_wait(strategy, cur_attempt[frame(f)],
                           Get(decision[f].error),
                           frac, decision[f].handler)
       IN  /\ decision' = [decision EXCEPT ![f].delay = Some(w.delay)]
           /\ result' = [result EXCEPT ![f] = w.ret]
           /\ sleeps' = [sleeps EXCEPT ![f] =
                            IF w.ret = None THEN Append(@, w.delay) ELSE @]
           /\ pc' = [pc EXCEPT ![f] = IF w.ret = None THEN "wait" ELSE "done"]
    /\ UNCHANGED <<strategy, callvars, caller, pagevars, cur_attempt, requests,
                   trace>>

\* time.sleep(delay) returns and the for loop takes its next value, or ends
\* and falls through to the final return
Wake(f) ==
    /\ pc[f] = "wait"
    /\ LET n == next_attempt(cur_attempt[frame(f)])
       IN  IF in_range(strategy, n)
           THEN /\ cur_attempt' = [cur_attempt EXCEPT ![frame(f)] = n]
                /\ pc' = [pc EXCEPT ![f] = "request"]
                /\ UNCHANGED result
           ELSE /\ result' = [result EXCEPT ![f] = Some(max_retries_exceeded)]
                /\ pc' = [pc EXCEPT ![f] = "done"]
                /\ UNCHANGED cur_attempt
    /\ UNCHANGED <<strategy, callvars, caller, pagevars, requests, trace,
                   decision, sleeps>>

FlowNext ==
    \/ \E o \in FlowOutcomes : SendRequest(1, o)
    \/ CallbackWake(1)
    \/ \E fr \in Fracs : StartWait(1, fr)
    \/ Wake(1)

\* the flow is sequential code: session.request returns or raises within its
\* timeout and every time.sleep returns, so a step that can be taken is taken
FlowSpec == FlowInit /\ [][FlowNext]_vars /\ WF_vars(FlowNext)

\* The code that called client.get stops waiting for it (it is cancelled, or
\* its own deadline passes) while the flow is inside a time.sleep.  The flow
\* has no parameter, flag or deadline through which it could learn of it:
\* time.sleep(delay) blocks for the whole delay.
CallerGivesUp(f) ==
    /\ pc[f] \in {"callback_wait", "wait"}
    /\ caller[f] = "waiting"
    /\ caller' = [caller EXCEPT ![f] = "gave_up"]
    /\ UNCHANGED <<strategy, callvars, flowvars, pagevars>>

CancelNext ==
    \/ FlowNext
    \/ CallerGivesUp(1)

CancelSpec == FlowInit /\ [][CancelNext]_vars /\ WF_vars(FlowNext)

\* the same loop run on its own over a sequence of outcomes: the dict
\* returned (None if the outcomes run out first) and the last value of
\* `attempt`
RECURSIVE run_alone(_, _, _)
run_alone(self, att, outcomes) ==
    IF outcomes = <<>> THEN [result |-> None, attempt |-> att]
    ELSE LET r == on_outcome(self, att, Head(outcomes))
             w == start_wait(self, att, Get(r.error), 0, r.handler)
         IN  IF r.ret # None THEN [result |-> r.ret, attempt |-> att]
             ELSE IF w.ret # None THEN [result |-> w.ret, attempt |-> att]
             ELSE IF in_range(self, next_attempt(att))
             THEN run_alone(self, next_attempt(att), Tail(outcomes))
             ELSE [result |-> Some(max_retries_exceeded), attempt |-> att]

-----------------------------------------------------------------------------
(* Concurrent request flows on one shared RobustAPIClient (threads calling *)
(* client.get, as run_performance_tests does with its client)              *)

ConcStrategies ==
    { RetryStrategy(1, 1, 60, 2),
      RetryStrategy(1, 2, 30, 3) }

ConcOutcomes ==
    { Received(Response(200, <<>>), TRUE),
      Received(Response(401, <<>>), TRUE),
      Received(Response(500, <<>>), FALSE),
      Received(Response(429, RetryAfterHeader(<<"2">>)), FALSE),
      Raised(Exc("Timeout", "timed out")) }

\* the instants at which the flows' delays are computed
ConcFracs == {FracDen - 1}

ConcInit ==
    /\ strategy \in ConcStrategies
    /\ error = None
    /\ last = [op |-> "init"]
    /\ FlowsInit(Flows)
    /\ PagerIdle

\* every interleaving of the flows' steps
ConcNext ==
    \E f \in Flows :
        \/ \E o \in ConcOutcomes : SendRequest(f, o)
        \/ CallbackWake(f)
        \/ \E fr \in ConcFracs : StartWait(f, fr)
        \/ Wake(f)

ConcSpec == ConcInit /\ [][ConcNext]_vars

-----------------------------------------------------------------------------
(* src/api_client_example.py: APIClient                                    *)
(* Python values passed by callers are tagged with their type (the field  *)
(* of the other type is unused); a dict is a sequence of <<key, value>>    *)
(* pairs with distinct keys.  time.sleep arguments of APIClient are whole  *)
(* seconds.                                                                 *)

PyNone == [type |-> "NoneType", int |-> 0, str |-> <<>>]

PyInt(n) == [type |-> "int", int |-> n, str |-> <<>>]

PyStr(s) == [type |-> "str", int |-> 0, str |-> s]

\* bool(v)
py_truthy(v) ==
    CASE v.type = "NoneType" -> FALSE
      [] v.type = "int" -> v.int # 0
      [] v.type = "str" -> v.str # <<>>

\* the keys of a dict
keys(d) == { d[i][1] : i \in 1..Len(d) }

\* d[key], for a key of d
item(d, key) == Get(headers_get(d, key))

Letters ==
    { "a", "b", "c", "d", "e", "f", "g", "h", "i", "j", "k", "l", "m", "n",
      "o", "p", "q", "r", "s", "t", "u", "v", "w", "x", "y", "z",
      "A", "B", "C", "D", "E", "F", "G", "H", "I", "J", "K", "L", "M", "N",
      "O", "P", "Q", "R", "S", "T", "U", "V", "W", "X", "Y", "Z" }

\* str.isalnum(): at least one character and all of them letters or digits
isalnum(s) ==
    /\ s # <<>>
    /\ \A i \in 1..Len(s) : s[i] \in Letters \/ IsDigit(s[i])

\* x in s, for a character x and a str s
contains(s, x) == \E i \in 1..Len(s) : s[i] = x

\* s.split('@')[-1]: what follows the last '@' (all of s if there is none)
RECURSIVE after_last_at(_)
after_last_at(s) ==
    IF contains(s, "@") THEN after_last_at(Tail(s)) ELSE s

\* @dataclass APIResponse (timestamp is not modelled: nothing reads it)
APIResponse(success, data, err, status_code) ==
    [success |-> success, data |-> data, error |-> err,
     status_code |-> status_code]

\* max_retries = 3
ApiMaxRetries == 3

\* retry_delay = 1
ApiRetryDelay == 1

\* one iteration of the loop of _make_request ends in a return or in a
\* time.sleep followed by continue
ApiReturns(resp) == [ret |-> Some(resp), sleep |-> None]

ApiSleeps(seconds) == [ret |-> None, sleep |-> Some(seconds)]

\* faulty variant: the last attempt sleeps and continues like the others
api_may_retry_always(att) == TRUE

\* faulty variant: never a second attempt
api_may_retry_never(att) == FALSE

\* lines 89, 108, 119: if attempt < max_retries - 1
api_may_retry(att) == att < ApiMaxRetries - 1

\* time.sleep(retry_delay * (2 ** attempt))
api_backoff(att) == ApiSleeps(ApiRetryDelay * Pow(2, att))

\* lines 106-133: the except clauses, in order
api_except(att, e) ==
    IF isinstance(Some(e), "Timeout")
    THEN IF api_may_retry(att) THEN api_backoff(att)
         ELSE ApiReturns(APIResponse(FALSE, None, Some("Request timeout"),
                                     None))
    ELSE IF isinstance(Some(e), "ConnectionError")
    THEN IF api_may_retry(att) THEN api_backoff(att)
         ELSE ApiReturns(APIResponse(FALSE, None, Some("Connection error"),
                                     None))
    ELSE ApiReturns(APIResponse(FALSE, None,
                                Some("Unexpected error: " \o e.msg), None))

\* faulty variant: a 401 is reported like any other client error
api_auth_failed_generic(status_code) ==
    APIResponse(FALSE, None,
                Some("Request failed: " \o ToString(status_code)),
                Some(status_code))

\* lines 75-80
api_auth_failed(status_code) ==
    APIResponse(FALSE, None, Some("Authentication failed"), Some(status_code))

\* lines 81-86: wait_time = int(response.headers.get('Retry-After',
\* retry_delay)); time.sleep(wait_time); continue
api_rate_limited(att, response) ==
    LET h == headers_get(response.headers, "Retry-After")
    IN  IF h = None THEN ApiSleeps(ApiRetryDelay)
        ELSE IF ~int(Get(h)).ok THEN api_except(att, IntError)
        ELSE IF int(Get(h)).value < 0 THEN api_except(att, SleepError)
        ELSE ApiSleeps(int(Get(h)).value)

\* lines 68-104: the try body after session.request returned
api_on_response(att, response, json_ok) ==
    LET status_code == response.status_code
    IN  IF status_code = 200
        THEN IF json_ok
             THEN ApiReturns(APIResponse(TRUE, Some("json"), None,
                                         Some(status_code)))
             ELSE api_except(att, JSONError)
        ELSE IF status_code = 401
        THEN ApiReturns(api_auth_failed(status_code))
        ELSE IF status_code = 429
        THEN api_rate_limited(att, response)
        ELSE IF status_code >= 500
        THEN IF api_may_retry(att) THEN api_backoff(att)
             ELSE ApiReturns(APIResponse(
                      FALSE, None,
                      Some("Server error: " \o ToString(status_code)),
                      Some(status_code)))
        ELSE ApiReturns(APIResponse(
                 FALSE, None,
                 Some("Request failed: " \o ToString(status_code)),
                 Some(status_code)))

\* lines 57-133: one iteration of `for attempt in range(max_retries)`
api_iteration(att, outcome) ==
    IF outcome.exception # None
    THEN api_except(att, Get(outcome.exception))
    ELSE api_on_response(att, Get(outcome.response), outcome.json_ok)

\* lines 135-138
api_max_retries_exceeded ==
    APIResponse(FALSE, None, Some("Max retries exceeded"), None)

\* what a public method does before it calls _make_request:
\*   ret     the APIResponse returned without a request, if any
\*   raised  the exception raised to the caller, if any
Proceed == [ret |-> None, raised |-> None]

Rejected(msg) ==
    [ret |-> Some(APIResponse(FALSE, None, Some(msg), None)),
     raised |-> None]

Throws(cls) == [ret |-> None, raised |-> Some(cls)]

\* faulty variant: the format test made on the unstripped user_id only
get_user_unsanitized(user_id) ==
    IF ~py_truthy(user_id) \/ user_id.type # "str"
    THEN Rejected("Invalid user ID")
    ELSE Proceed

\* get_user, lines 151-163
get_user(user_id) ==
    IF ~py_truthy(user_id) \/ user_id.type # "str"
    THEN Rejected("Invalid user ID")
    ELSE IF ~isalnum(strip(user_id.str))
    THEN Rejected("Invalid user ID format")
    ELSE Proceed

\* line 172: field not in user_data or not user_data[field]
field_missing(user_data, field) ==
    field \notin keys(user_data) \/ ~py_truthy(item(user_data, field))

\* line 180: '@' not in email or '.' not in email.split('@')[-1], for a str
email_invalid(s) ==
    ~contains(s, "@") \/ ~contains(after_last_at(s), ".")

\* create_user, lines 170-184; `'@' not in email` raises TypeError when
\* email is an int
create_user(user_data) ==
    IF field_missing(user_data, "name")
    THEN Rejected("Missing required field: name")
    ELSE IF field_missing(user_data, "email")
    THEN Rejected("Missing required field: email")
    ELSE IF item(user_data, "email").type # "str"
    THEN Throws("TypeError")
    ELSE IF email_invalid(item(user_data, "email").str)
    THEN Rejected("Invalid email format")
    ELSE Proceed

\* lines 214-223: the keys of update_data that are kept
sanitized_fields(update_data) ==
    { field \in keys(update_data) :
        \/ field = "name"
        \/ /\ field = "email"
           /\ item(update_data, field).type = "str"
           /\ ~email_invalid(item(update_data, field).str)
        \/ /\ field = "age"
           /\ item(update_data, field).type = "int"
           /\ 0 <= item(update_data, field).int
           /\ item(update_data, field).int <= 150 }

\* update_user, lines 198-229
update_user(user_id, update_data) ==
    IF ~py_truthy(user_id) \/ user_id.type # "str"
    THEN Rejected("Invalid user ID")
    ELSE IF update_data = <<>>
    THEN Rejected("No update data provided")
    ELSE IF sanitized_fields(update_data) = {}
    THEN Rejected("No valid fields to update")
    ELSE Proceed

\* delete_user, lines 236-240
delete_user(user_id) ==
    IF ~py_truthy(user_id) \/ user_id.type # "str"
    THEN Rejected("Invalid user ID")
    ELSE Proceed

\* the public method called, with its arguments
Call(op, args) == [op |-> op, args |-> args]

before_request(call) ==
    CASE call.op = "get_users" -> Proceed
      [] call.op = "get_user" -> get_user(call.args[1])
      [] call.op = "create_user" -> create_user(call.args[1])
      [] call.op = "update_user" -> update_user(call.args[1], call.args[2])
      [] call.op = "delete_user" -> delete_user(call.args[1])

\* the longest user_id and email strings tried
MaxLen == 3

UserIdChars == {"a", "7", " ", "-"}

EmailChars == {"a", "@", "."}

RECURSIVE Strings(_, _)
Strings(chars, n) ==
    IF n = 0 THEN {<<>>}
    ELSE LET shorter == Strings(chars, n - 1)
         IN  shorter \cup { Append(s, c) : s \in shorter, c \in chars }

UserIds ==
    {PyNone, PyInt(0), PyInt(7)}
        \cup { PyStr(s) : s \in Strings(UserIdChars, MaxLen) }

Names == {PyStr(<<>>), PyStr(<<"J">>), PyInt(0)}

Emails ==
    {PyNone, PyInt(5)} \cup { PyStr(s) : s \in Strings(EmailChars, MaxLen) }
        \cup { PyStr(<<"a", "@", "b", ".", "c">>),
               PyStr(<<"a", ".", "b", "@", "c">>) }

UserDicts ==
    {<<>>}
        \cup { <<<<"name", n>>>> : n \in Names }
        \cup { <<<<"email", e>>>> : e \in Emails }
        \cup { <<<<"name", n>>, <<"email", e>>>> : n \in Names, e \in Emails }

UpdateDicts ==
    { <<>>,
      <<<<"name", PyStr(<<"J">>)>>>>,
      <<<<"email", PyStr(<<"a">>)>>>>,
      <<<<"age", PyInt(200)>>>>,
      <<<<"role", PyStr(<<"x">>)>>>>,
      <<<<"age", PyInt(31)>>, <<"role", PyStr(<<"x">>)>>>> }

ApiCalls ==
    {Call("get_users", <<>>)}
        \cup { Call("get_user", <<u>>) : u \in UserIds }
        \cup { Call("create_user", <<d>>) : d \in UserDicts }
        \cup { Call("update_user", <<u, d>>) :
                 u \in {PyNone, PyStr(<<"7">>)}, d \in UpdateDicts }
        \cup { Call("delete_user", <<u>>) :
                 u \in {PyStr(<<>>), PyInt(7), PyStr(<<"7">>)} }

\* transport outcomes of one session.request call of APIClient
ApiOutcomes ==
    { Received(Response(200, <<>>), TRUE),
      Received(Response(200, <<>>), FALSE),
      Received(Response(201, <<>>), TRUE),
      Received(Response(204, <<>>), FALSE),
      Received(Response(401, <<>>), FALSE),
      Received(Response(404, <<>>), FALSE),
      Received(Response(429, <<>>), FALSE),
      Received(Response(429, RetryAfterHeader(<<"6", "0">>)), FALSE),
      Received(Response(429, RetryAfterHeader(<<"a", "b", "c">>)), FALSE),
      Received(Response(500, <<>>), FALSE),
      Received(Response(503, <<>>), FALSE),
      Raised(Exc("Timeout", "timed out")),
      Raised(Exc("ConnectionError", "connection refused")),
      Raised(Exc("ValueError", "bad url")) }

\* an APIClient, no method called yet
ApiInit ==
    /\ strategy = DefaultStrategy
    /\ error = None
    /\ last = [op |-> "init"]
    /\ FlowsInit({})
    /\ PagerIdle

\* a public method is called: its validation, then either a return without
\* a request, an exception, or the entry of _make_request
ApiCall(f, call) ==
    /\ pc[f] = "idle"
    /\ last' = call
    /\ LET v == before_request(call)
       IN  /\ result' = [result EXCEPT ![f] = v.ret]
           /\ pc' = [pc EXCEPT ![f] =
                        IF v.ret # None THEN "done"
                        ELSE IF v.raised # None THEN "raised"
                        ELSE "request"]
    /\ UNCHANGED <<strategy, error, caller, pagevars, cur_attempt, requests,
                   trace, decision, sleeps>>

\* response = self.session.request(...) and the rest of the iteration up to
\* its return or its time.sleep
ApiSendRequest(f, outcome) ==
    /\ pc[f] = "request"
    /\ requests[f] < MaxRequests
    /\ LET r == api_iteration(cur_attempt[frame(f)], outcome)
       IN  /\ requests' = [requests EXCEPT ![f] = @ + 1]
           /\ trace' = [trace EXCEPT ![f] = Append(@, outcome)]
           /\ result' = [result EXCEPT ![f] = r.ret]
           /\ sleeps' = [sleeps EXCEPT ![f] =
                            IF r.sleep # None THEN <<Get(r.sleep)>>
                            ELSE <<>>]
           /\ pc' = [pc EXCEPT ![f] = IF r.ret # None THEN "done" ELSE "wait"]
    /\ UNCHANGED <<strategy, callvars, caller, pagevars, cur_attempt, decision>>

\* time.sleep returns and the for loop takes its next value, or ends and
\* falls through to the final return
ApiWake(f) ==
    /\ pc[f] = "wait"
    /\ LET n == next_attempt(cur_attempt[frame(f)])
       IN  IF n < ApiMaxRetries
           THEN /\ cur_attempt' = [cur_attempt EXCEPT ![frame(f)] = n]
                /\ pc' = [pc EXCEPT ![f] = "request"]
                /\ UNCHANGED result
           ELSE /\ result' = [result EXCEPT ![f] =
                                 Some(api_max_retries_exceeded)]
                /\ pc' = [pc EXCEPT ![f] = "done"]
                /\ UNCHANGED cur_attempt
    /\ UNCHANGED <<strategy, callvars, caller, pagevars, requests, trace,
                   decision, sleeps>>

ApiNext ==
    \/ \E call \in ApiCalls : ApiCall(1, call)
    \/ \E o \in ApiOutcomes : ApiSendRequest(1, o)
    \/ ApiWake(1)

\* sequential code: a step that can be taken is taken
ApiSpec == ApiInit /\ [][ApiNext]_vars /\ WF_vars(ApiNext)

-----------------------------------------------------------------------------
(* src/app/client.py: ExternalApiClient.list_all_items, paging through     *)
(* GET /items of src/mock_external/main.py                                 *)

\* largest upstream store and largest page_size tried
MaxItems == 5

MaxPageSize == 3

\* page requests of one list_all_items call that the model follows: one
\* more than a call with page_size >= 1 can make
MaxFetches == MaxItems + 1

\* {"id": i, "name": f"Item {i}"}
SeededItem(i) == [id |-> i, name |-> "Item " \o ToString(i)]

\* FAKE_DB = [... for i in range(1, n + 1)] (n is 100 in the source)
SeededDB(n) == [i \in 1..n |-> SeededItem(i)]

\* a slice bound as Python reads it: a negative one counts from the end,
\* and both kinds are clamped to the list
slice_index(i, n) ==
    IF i < 0 THEN (IF i + n < 0 THEN 0 ELSE i + n) ELSE Min(i, n)

\* Python's db[start_index:end_index]
slice(db, start_index, end_index) ==
    LET lo == slice_index(start_index, Len(db))
        hi == slice_index(end_index, Len(db))
    IN  IF lo < hi THEN SubSeq(db, lo + 1, hi) ELSE <<>>

\* faulty variant: the cursor taken as the index of the last item served
list_items_after_cursor(db, size, cursor) ==
    LET start_index == IF cursor # None THEN Get(cursor) + 1 ELSE 0
        end_index == Min(start_index + size, Len(db))
        items == slice(db, start_index, end_index)
    IN  [items |-> items,
         next_cursor |-> IF end_index < Len(db) THEN Some(end_index)
                         ELSE None,
         count |-> Len(items)]

\* mock_external list_items, lines 36-49 (the bearer token is the expected
\* one)
list_items(db, size, cursor) ==
    LET start_index == IF cursor # None THEN Get(cursor) ELSE 0
        end_index == Min(start_index + size, Len(db))
        items == slice(db, start_index, end_index)
    IN  [items |-> items,
         next_cursor |-> IF end_index < Len(db) THEN Some(end_index)
                         ELSE None,
         count |-> Len(items)]

\* the upstream store as seeded, and a call list_all_items(page_size) about
\* to request its first page
PageInit ==
    /\ strategy = DefaultStrategy
    /\ error = None
    /\ last = [op |-> "init"]
    /\ FlowsInit({})
    /\ \E n \in 0..(MaxItems - 1) : FAKE_DB = SeededDB(n)
    /\ page_size \in 1..MaxPageSize
    /\ next_cursor = None
    /\ yielded = <<>>
    /\ page_pc = "fetch"
    /\ cursors = <<>>
    /\ creating = [t \in Creators |-> None]

\* one turn of the while loop of list_all_items: the page is requested and
\* served, its items are yielded, and the loop ends or keeps the cursor
FetchPage ==
    /\ page_pc = "fetch"
    /\ Len(cursors) < MaxFetches
    /\ cursors' = Append(cursors, next_cursor)
    /\ LET page == list_items(FAKE_DB, page_size, next_cursor)
       IN  /\ yielded' = yielded \o page.items
           /\ IF page.next_cursor = None
              THEN /\ page_pc' = "done"
                   /\ UNCHANGED next_cursor
              ELSE /\ next_cursor' = page.next_cursor
                   /\ UNCHANGED page_pc
    /\ UNCHANGED <<strategy, callvars, flowvars, caller, FAKE_DB, page_size,
                   creating>>

\* mock_external create_item, lines 60-63, called by another client of the
\* upstream
CreateItem(name) ==
    /\ Len(FAKE_DB) < MaxItems
    /\ FAKE_DB' = Append(FAKE_DB, [id |-> Len(FAKE_DB) + 1, name |-> name])
    /\ UNCHANGED <<strategy, callvars, flowvars, caller, page_size,
                   next_cursor, yielded, page_pc, cursors, creating>>

PageNext ==
    \/ FetchPage
    \/ CreateItem("Interview Item")

\* the generator is driven by `async for`: a page that can be requested is
PageSpec == PageInit /\ [][PageNext]_vars /\ WF_vars(FetchPage)

\* GET /items?all=true&page_size=n of src/app/routers.py: page_size is any
\* int, the route puts no bound on it
AnyPageInit ==
    /\ strategy = DefaultStrategy
    /\ error = None
    /\ last = [op |-> "init"]
    /\ FlowsInit({})
    /\ \E n \in 0..(MaxItems - 1) : FAKE_DB = SeededDB(n)
    /\ page_size \in (0 - MaxPageSize)..MaxPageSize
    /\ next_cursor = None
    /\ yielded = <<>>
    /\ page_pc = "fetch"
    /\ cursors = <<>>
    /\ creating = [t \in Creators |-> None]

AnyPageSpec == AnyPageInit /\ [][PageNext]_vars /\ WF_vars(FetchPage)

-----------------------------------------------------------------------------
(* src/mock_external/main.py: create_item served by the threads of the    *)
(* pool that runs the def endpoints                                        *)

CreateNames == {"Interview Item", "Other Item"}

\* create_item calls begun and not yet returned
InProgress == { t \in Creators : creating[t] # None }

\* lines 60-61: new_id is read from the length of the store and the item is
\* built
CreateRead(t, name) ==
    /\ creating[t] = None
    /\ Len(FAKE_DB) + Cardinality(InProgress) < MaxItems
    /\ creating' = [creating EXCEPT
                       ![t] = Some([id |-> Len(FAKE_DB) + 1, name |-> name])]
    /\ UNCHANGED <<strategy, callvars, flowvars, caller, FAKE_DB, page_size,
                   next_cursor, yielded, page_pc, cursors>>

\* lines 62-63: the item is appended and returned
CreateAppend(t) ==
    /\ creating[t] # None
    /\ FAKE_DB' = Append(FAKE_DB, Get(creating[t]))
    /\ creating' = [creating EXCEPT ![t] = None]
    /\ UNCHANGED <<strategy, callvars, flowvars, caller, page_size,
                   next_cursor, yielded, page_pc, cursors>>

\* the upstream store as seeded, and no call in progress
CreateInit ==
    /\ strategy = DefaultStrategy
    /\ error = None
    /\ last = [op |-> "init"]
    /\ FlowsInit({})
    /\ \E n \in 0..(MaxItems - 1) : FAKE_DB = SeededDB(n)
    /\ page_size = 0
    /\ next_cursor = None
    /\ yielded = <<>>
    /\ page_pc = "idle"
    /\ cursors = <<>>
    /\ creating = [t \in Creators |-> None]

CreateNext ==
    \/ \E t \in Creators, name \in CreateNames : CreateRead(t, name)
    \/ \E t \in Creators : CreateAppend(t)

CreateSpec == CreateInit /\ [][CreateNext]_vars

-----------------------------------------------------------------------------
(* src/app/client.py: ExternalApiClient._get and _post under their         *)
(* tenacity @retry decorator                                               *)

\* stop=stop_after_attempt(3)
ExtMaxAttempts == 3

\* httpx.Response.is_success
is_success(response) ==
    200 <= response.status_code /\ response.status_code <= 299

\* the exception of response.raise_for_status(); it keeps the response
HTTPStatusError(response) ==
    Exc("HTTPStatusError", "status " \o ToString(response.status_code))

\* retry=retry_if_exception_type((HTTPStatusError, ConnectError,
\* ReadTimeout)); none of the three has a subclass in httpx
ext_retry(exception) ==
    exception.cls \in {"HTTPStatusError", "ConnectError", "ReadTimeout"}

\* stop_after_attempt: no further attempt from this attempt number on
ext_stop(attempt_number) == attempt_number >= ExtMaxAttempts

\* wait_exponential(multiplier=0.5, min=0.5, max=4) after the attempt of
\* this number, in ticks: 0.5 * 2 ** (attempt_number - 1) seconds, kept
\* between 0.5 and 4 seconds
ext_wait(attempt_number) ==
    LET exp == (TicksPerSecond * 2 ^ (attempt_number - 1)) \div 2
        lo == TicksPerSecond \div 2
        hi == 4 * TicksPerSecond
    IN  IF exp < lo THEN lo ELSE Min(exp, hi)

\* what the call hands to its caller: a response returned, or an exception
\* raised (with its response, for an HTTPStatusError)
ExtReturns(response) == [response |-> Some(response), exception |-> None]

ExtRaises(exception, response) ==
    [response |-> response, exception |-> Some(exception)]

\* the body of _get / _post, lines 36-41 and 50-55: the outcome of the
\* request is the transport's exception, an HTTPStatusError or the response
ext_body(outcome) ==
    IF outcome.exception # None
    THEN ExtRaises(Get(outcome.exception), None)
    ELSE LET response == Get(outcome.response)
         IN  IF response.status_code \in {500, 502, 503, 504, 429}
             THEN ExtRaises(HTTPStatusError(response), Some(response))
             ELSE IF ~is_success(response)
             THEN ExtRaises(HTTPStatusError(response), Some(response))
             ELSE ExtReturns(response)

\* one attempt under @retry: the body's result is final (returned, or
\* re-raised because reraise=True), or the decorator sleeps and calls again
ext_attempt(attempt_number, outcome) ==
    LET r == ext_body(outcome)
    IN  IF r.exception = None THEN [final |-> Some(r), sleep |-> None]
        ELSE IF ~ext_retry(Get(r.exception))
        THEN [final |-> Some(r), sleep |-> None]
        ELSE IF ext_stop(attempt_number)
        THEN [final |-> Some(r), sleep |-> None]
        ELSE [final |-> None, sleep |-> Some(ext_wait(attempt_number))]

\* what the upstream or the transport can answer
ExtOutcomes ==
    { Received(Response(200, <<>>), TRUE),
      Received(Response(201, <<>>), TRUE),
      Received(Response(301, <<>>), FALSE),
      Received(Response(401, <<>>), TRUE),
      Received(Response(403, <<>>), TRUE),
      Received(Response(404, <<>>), TRUE),
      Received(Response(422, <<>>), TRUE),
      Received(Response(429, <<>>), TRUE),
      Received(Response(500, <<>>), FALSE),
      Received(Response(502, <<>>), FALSE),
      Received(Response(503, <<>>), FALSE),
      Received(Response(504, <<>>), FALSE),
      Raised(Exc("ConnectError", "connection refused")),
      Raised(Exc("ReadTimeout", "timed out")),
      Raised(Exc("ConnectTimeout", "timed out")),
      Raised(Exc("WriteError", "broken pipe")) }

\* an ExternalApiClient, neither method called yet
ExtInit ==
    /\ strategy = DefaultStrategy
    /\ error = None
    /\ last = [op |-> "init"]
    /\ FlowsInit({})
    /\ PagerIdle

\* _get or _post is called: the decorator starts with attempt number 1
ExtCall(f, method) ==
    /\ pc[f] = "idle"
    /\ last' = [op |-> method]
    /\ cur_attempt' = [cur_attempt EXCEPT ![f] = 1]
    /\ pc' = [pc EXCEPT ![f] = "request"]
    /\ UNCHANGED <<strategy, error, caller, pagevars, requests, trace,
                   decision, sleeps, result>>

\* self._client.get / post and the rest of the attempt, up to the return,
\* the raise or the decorator's sleep
ExtSendRequest(f, outcome) ==
    /\ pc[f] = "request"
    /\ LET r == ext_attempt(cur_attempt[f], outcome)
       IN  /\ requests' = [requests EXCEPT ![f] = @ + 1]
           /\ trace' = [trace EXCEPT ![f] = Append(@, outcome)]
           /\ result' = [result EXCEPT ![f] = r.final]
           /\ sleeps' = [sleeps EXCEPT ![f] =
                            IF r.sleep # None THEN <<Get(r.sleep)>>
                            ELSE <<>>]
           /\ pc' = [pc EXCEPT ![f] =
                        IF r.final = None THEN "wait"
                        ELSE IF Get(r.final).exception = None THEN "done"
                        ELSE "raised"]
    /\ UNCHANGED <<strategy, callvars, caller, pagevars, cur_attempt, decision>>

\* the sleep ends and the decorator calls the body again
ExtWake(f) ==
    /\ pc[f] = "wait"
    /\ cur_attempt' = [cur_attempt EXCEPT ![f] = @ + 1]
    /\ pc' = [pc EXCEPT ![f] = "request"]
    /\ UNCHANGED <<strategy, callvars, caller, pagevars, requests, trace,
                   decision, sleeps, result>>

ExtNext ==
    \/ \E method \in {"_get", "_post"} : ExtCall(1, method)
    \/ \E o \in ExtOutcomes : ExtSendRequest(1, o)
    \/ ExtWake(1)

\* a coroutine that is awaited: a step that can be taken is taken
ExtSpec == ExtInit /\ [][ExtNext]_vars /\ WF_vars(ExtNext)

-----------------------------------------------------------------------------
(* Properties of RetryStrategy.should_retry *)

CalledShouldRetry == last.op = "should_retry"

\* C1: should_retry returns false for every error kind, status_code and
\* retry_after whenever attempt >= max_retries.
C1_NoRetryAtMaxRetries ==
    (CalledShouldRetry /\ last.attempt >= strategy.max_retries)
        => last.ret = FALSE

C1_Witness ==
    /\ CalledShouldRetry
    /\ last.attempt = strategy.max_retries
    /\ Get(error).error_type = SERVER_ERROR
    /\ last.ret = FALSE

\* C2: for 0 <= attempt < max_retries, should_retry returns true for every
\* error of kind network, timeout, server or rate_limit.
C2_RetryableKindsRetried ==
    ( /\ CalledShouldRetry
      /\ 0 <= last.attempt
      /\ last.attempt < strategy.max_retries
      /\ Get(error).error_type \in
             {NETWORK_ERROR, TIMEOUT_ERROR, SERVER_ERROR, RATE_LIMIT_ERROR} )
        => last.ret = TRUE

C2_Witness ==
    /\ CalledShouldRetry
    /\ last.attempt = strategy.max_retries - 1
    /\ Get(error).error_type = RATE_LIMIT_ERROR
    /\ Get(error).status_code = None
    /\ last.ret = TRUE

-----------------------------------------------------------------------------
(* Properties of RetryStrategy.get_delay *)

CalledGetDelay == last.op = "get_delay"

\* C4: get_delay returns exactly error.retry_after, with no backoff and no
\* jitter, at every attempt, whenever error.kind is rate_limit and
\* retry_after is present (whatever integer it is).
C4_RetryAfterVerbatim ==
    ( /\ CalledGetDelay
      /\ Get(error).error_type = RATE_LIMIT_ERROR
      /\ Get(error).retry_after # None )
        => /\ last.ret = Get(Get(error).retry_after) * TicksPerSecond
           /\ last.delay = None

\* C5: on the backoff path the un-jittered delay is
\* min(base_delay * backoff_factor^attempt, max_delay): 1, 2, 4, 8 at
\* attempts 0..3 and 60 at attempt 10 with the default configuration,
\* non-decreasing in attempt and never above max_delay.
C5_BackoffDelay ==
    (CalledGetDelay /\ last.delay # None) =>
        LET d == Get(last.delay)
            a == last.attempt
            uncapped == strategy.base_delay * Pow(strategy.backoff_factor, a)
        IN  /\ d = IF uncapped <= strategy.max_delay THEN uncapped
                   ELSE strategy.max_delay
            /\ d <= strategy.max_delay
            /\ \A b \in 0..a : backoff_delay(strategy, b) <= d
            /\ strategy = DefaultStrategy =>
                   /\ a = 0 => d = 1
                   /\ a = 1 => d = 2
                   /\ a = 2 => d = 4
                   /\ a = 3 => d = 8
                   /\ a = 10 => d = 60

C5_Witness ==
    /\ CalledGetDelay
    /\ strategy = DefaultStrategy
    /\ last.attempt = 10
    /\ last.delay = Some(60)

\* C6: on the backoff path, for every attempt and every clock fraction, the
\* value returned by get_delay lies within [0.95*d, 1.05*d], d the
\* un-jittered delay, and is never negative.
C6_JitterWithinFivePercent ==
    (CalledGetDelay /\ last.delay # None) =>
        LET d == Get(last.delay)
        IN  /\ 100 * last.ret >= 95 * d * TicksPerSecond
            /\ 100 * last.ret <= 105 * d * TicksPerSecond
            /\ last.ret >= 0

C6_Witness ==
    /\ CalledGetDelay
    /\ last.delay # None
    /\ last.frac = 0
    /\ last.attempt = 2
    /\ Get(last.delay) > 0
    /\ 100 * last.ret = 105 * Get(last.delay) * TicksPerSecond


-----------------------------------------------------------------------------
(* Properties of RobustAPIClient._classify_error *)

CalledClassify == last.op = "_classify_error"

\* the kind the status table assigns to a status code
KindOfStatus(sc) ==
    IF sc = 401 THEN AUTHENTICATION_ERROR
    ELSE IF sc = 403 THEN AUTHORIZATION_ERROR
    ELSE IF sc = 429 THEN RATE_LIMIT_ERROR
    ELSE IF sc \in 400..499 THEN CLIENT_ERROR
    ELSE IF sc \in 500..599 THEN SERVER_ERROR
    ELSE UNKNOWN_ERROR

\* C7: for a received response and no exception, _classify_error maps 401 to
\* authentication, 403 to authorization, 429 to rate_limit, every other 4xx
\* to client, every 5xx to server and every other status to unknown; the
\* returned status_code is the response status in the first five cases.
C7_StatusMapping ==
    (CalledClassify /\ last.exception = None /\ last.response # None) =>
        LET sc == Get(last.response).status_code
        IN  /\ last.raised = None
            /\ Get(last.value).error_type = KindOfStatus(sc)
            /\ KindOfStatus(sc) # UNKNOWN_ERROR =>
                   Get(last.value).status_code = Some(sc)

\* C8: classifying a 429 response yields kind rate_limit with retry_after
\* the integer value of the Retry-After header when it parses as an integer,
\* and 60 when the header is absent or unparseable.
C8_RetryAfterExtracted ==
    ( /\ CalledClassify
      /\ last.exception = None
      /\ last.response # None
      /\ Get(last.response).status_code = 429 ) =>
        LET h == headers_get(Get(last.response).headers, "Retry-After")
        IN  /\ last.raised = None
            /\ Get(last.value).error_type = RATE_LIMIT_ERROR
            /\ Get(last.value).retry_after =
                   IF h # None /\ int(Get(h)).ok THEN Some(int(Get(h)).value)
                   ELSE Some(60)

\* C9: _classify_error is total: for every exception (or none) and every
\* response (or none) it returns an APIError and never raises; for an
\* unrecognized exception with no response the result has kind unknown and
\* carries the exception's message.
C9_ClassifyTotal ==
    CalledClassify =>
        /\ last.raised = None
        /\ last.value # None
        /\ ( /\ last.exception # None
             /\ ~isinstance(last.exception, "Timeout")
             /\ ~isinstance(last.exception, "ConnectionError")
             /\ last.response = None ) =>
               /\ Get(last.value).error_type = UNKNOWN_ERROR
               /\ Get(last.value).message = Get(last.exception).msg

\* C10 as stated: a Timeout is classified timeout and a ConnectionError is
\* classified network, whether or not a response is supplied.
C10_Original ==
    CalledClassify =>
        /\ isinstance(last.exception, "Timeout") =>
               (last.raised = None
                    /\ Get(last.value).error_type = TIMEOUT_ERROR)
        /\ isinstance(last.exception, "ConnectionError") =>
               (last.raised = None
                    /\ Get(last.value).error_type = NETWORK_ERROR)

\* C10 (amended): a Timeout is classified timeout, and a ConnectionError
\* that is not also a Timeout (ConnectTimeout is both) is classified
\* network, whether or not a response is supplied.
C10_TransportFailures ==
    CalledClassify =>
        /\ isinstance(last.exception, "Timeout") =>
               (last.raised = None
                    /\ Get(last.value).error_type = TIMEOUT_ERROR)
        /\ ( /\ isinstance(last.exception, "ConnectionError")
             /\ ~isinstance(last.exception, "Timeout") ) =>
               (last.raised = None
                    /\ Get(last.value).error_type = NETWORK_ERROR)

C10_Witness ==
    /\ CalledClassify
    /\ last.exception # None
    /\ Get(last.exception).cls = "ConnectionError"
    /\ last.response # None
    /\ Get(last.response).status_code = 429
    /\ last.raised = None
    /\ Get(last.value).error_type = NETWORK_ERROR


-----------------------------------------------------------------------------
(* Properties of a request flow (FlowSpec) *)

Done(f) == pc[f] = "done"

StatusOf(o) == Get(o.response).status_code

IsStatus(o, sc) == o.response # None /\ StatusOf(o) = sc

\* the first n outcomes of flow f are all responses with status sc
FirstAre(f, n, sc) ==
    /\ n <= Len(trace[f])
    /\ \A i \in 1..n : IsStatus(trace[f][i], sc)

\* C11: the attempt counter starts at 0, increases by exactly 1 and only
\* after a failed attempt for which should_retry returned true, and never
\* exceeds max_retries; the flow makes at most max_retries + 1 requests.
C11_AttemptCounter ==
    /\ [](\A f \in Flows :
            /\ requests[f] = 0 => cur_attempt[f] = 0
            /\ cur_attempt[f] <= strategy.max_retries
            /\ requests[f] <= strategy.max_retries + 1)
    /\ [][\A f \in Flows :
            cur_attempt'[f] # cur_attempt[f] =>
                /\ cur_attempt'[f] = cur_attempt[f] + 1
                /\ decision[f].error # None
                /\ decision[f].retry = Some(TRUE)
                /\ result[f] = None]_vars

C11_Witness ==
    /\ Done(1)
    /\ strategy.max_retries = 3
    /\ cur_attempt[1] = 3
    /\ requests[1] = 4

\* C12 as stated: k <= max_retries responses with status 500 followed by a
\* response with status 200 end the flow with success=True after exactly
\* k + 1 requests.
C12_Original ==
    \A k \in 0..strategy.max_retries :
        ( /\ Len(trace[1]) = k + 1
          /\ FirstAre(1, k, 500)
          /\ IsStatus(trace[1][k + 1], 200) ) =>
            /\ Done(1)
            /\ Get(result[1]).success = TRUE
            /\ requests[1] = k + 1

\* C12 (amended): k <= max_retries responses with status 500 do not end the
\* flow, and a following response with status 200 whose body decodes as JSON
\* ends it with success=True after exactly k + 1 requests.
C12_RetryThenSuccess ==
    \A k \in 0..strategy.max_retries :
        /\ (Len(trace[1]) = k /\ FirstAre(1, k, 500)) => ~Done(1)
        /\ ( /\ Len(trace[1]) = k + 1
             /\ FirstAre(1, k, 500)
             /\ IsStatus(trace[1][k + 1], 200)
             /\ trace[1][k + 1].json_ok ) =>
               /\ Done(1)
               /\ Get(result[1]).success = TRUE
               /\ Get(result[1]).status_code = Some(200)
               /\ requests[1] = k + 1

C12_Witness ==
    /\ Done(1)
    /\ Len(trace[1]) = 3
    /\ FirstAre(1, 2, 500)
    /\ IsStatus(trace[1][3], 200)
    /\ Get(result[1]).success = TRUE
    /\ requests[1] = 3

\* C13: when the first response has status 401 the flow makes exactly one
\* request, sleeps not at all and returns success=False with error_type
\* 'auth_error'.
C13_NoRetryOn401 ==
    (Len(trace[1]) >= 1 /\ IsStatus(trace[1][1], 401)) =>
        /\ Done(1)
        /\ requests[1] = 1
        /\ sleeps[1] = <<>>
        /\ Get(result[1]).success = FALSE
        /\ Get(result[1]).error_type = Some("auth_error")

C13_Witness ==
    /\ Done(1)
    /\ strategy.max_retries = 3
    /\ requests[1] = 1
    /\ IsStatus(trace[1][1], 401)
    /\ Get(result[1]).error_type = Some("auth_error")

\* the outcome is a failure that classifies as a retryable kind
RetryableOutcome(o) ==
    LET out == classify_error(o.exception, o.response)
    IN  /\ ~IsStatus(o, 200)
        /\ out.raised = None
        /\ Get(out.value).error_type \in
               {NETWORK_ERROR, TIMEOUT_ERROR, SERVER_ERROR, RATE_LIMIT_ERROR}

\* C14: when every attempt fails with a retryable error the flow ends with
\* a returned result, success=False, whose error, error_type and
\* status_code are those of the classified error of the last attempt made.
C14_ExhaustionCarriesLastError ==
    ( /\ Done(1)
      /\ \A i \in 1..Len(trace[1]) : RetryableOutcome(trace[1][i]) ) =>
        LET o == trace[1][Len(trace[1])]
            err == Get(classify_error(o.exception, o.response).value)
            res == Get(result[1])
        IN  /\ res.success = FALSE
            /\ res.error = Some(err.message)
            /\ res.error_type = Some(err.error_type)
            /\ res.status_code = err.status_code

\* C15: the flow eventually reaches a terminal state, Done (success=True)
\* or Failed (success=False), whatever the transport outcomes and
\* max_retries; once there it stays there and makes no further request.
C15_Terminates ==
    /\ <>Done(1)
    /\ [](Done(1) => (result[1] # None
                        /\ Get(result[1]).success \in BOOLEAN))
    /\ [][Done(1) => (Done(1)' /\ requests' = requests
                        /\ result' = result)]_vars

C15_Witness ==
    /\ Done(1)
    /\ strategy.max_retries = 3
    /\ requests[1] = 4
    /\ trace[1][4].exception # None
    /\ Get(result[1]).success = FALSE

\* C16: between a failed attempt for which should_retry is true and the
\* next attempt the flow sleeps exactly once, for the value get_delay
\* returned for that error and attempt (after a 429 with Retry-After = r it
\* has waited r in all).
C16_SingleWait ==
    \A f \in Flows :
        (pc[f] = "request" /\ cur_attempt[f] > 0) =>
            /\ Len(sleeps[f]) = 1
            /\ sleeps[f][1] = Get(decision[f].delay)


-----------------------------------------------------------------------------
(* Properties of the policy as a shared object *)

\* C17: should_retry and get_delay leave max_retries, base_delay, max_delay
\* and backoff_factor unchanged and do not modify the APIError passed in.
C17_PolicyUnchanged ==
    [][(last'.op \in {"should_retry", "get_delay"}) =>
           (strategy' = strategy /\ error' = error)]_vars

C17_Witness ==
    /\ CalledShouldRetry
    /\ strategy = DefaultStrategy
    /\ last.attempt = 1
    /\ last.ret = TRUE
    /\ Get(error).error_type = NETWORK_ERROR

\* C18: with several flows running concurrently on one client, under every
\* interleaving each flow's attempt count and returned result are those the
\* same flow produces when run alone on the outcomes it received.
C18_FlowsIndependent ==
    \A f \in Flows :
        Done(f) =>
            LET alone == run_alone(strategy, 0, trace[f])
            IN  /\ result[f] = alone.result
                /\ cur_attempt[f] = alone.attempt

C18_Witness ==
    /\ Done(1) /\ Done(2)
    /\ requests[1] = 2 /\ requests[2] = 1
    /\ Get(result[1]).success = FALSE
    /\ Get(result[2]).success = TRUE
    /\ cur_attempt[1] = 1 /\ cur_attempt[2] = 0

C20_RetryAfterIffRateLimit ==
    (CalledClassify /\ last.raised = None) =>
        (Get(last.value).retry_after # None
             <=> Get(last.value).error_type = RATE_LIMIT_ERROR)

C20_Witness ==
    /\ CalledClassify
    /\ last.raised = None
    /\ last.response # None
    /\ Get(last.response).status_code = 429
    /\ headers_get(Get(last.response).headers, "Retry-After") = None
    /\ Get(last.value).error_type = RATE_LIMIT_ERROR
    /\ Get(last.value).retry_after = Some(60)


-----------------------------------------------------------------------------
(* Cancellation and the end of the loop *)

\* C21: once the caller of a flow has been cancelled or has timed out while
\* the flow was waiting, the flow issues no further HTTP request.
C21_NoAttemptAfterCancel ==
    [][caller[1] = "gave_up" => requests'[1] = requests[1]]_vars

\* C30: the result after the loop, error_type 'max_retries_exceeded', is
\* never returned: an iteration with attempt = max_retries never reaches a
\* sleep, and every failure result carries the error_type of a classified
\* error.
C30_FallThroughUnreachable ==
    /\ pc[1] \in {"callback_wait", "delay", "wait"} =>
           cur_attempt[1] < strategy.max_retries
    /\ Done(1) =>
           /\ Get(result[1]).error_type # Some("max_retries_exceeded")
           /\ Get(result[1]).success = FALSE =>
                  \E k \in ErrorType : Get(result[1]).error_type = Some(k)

C30_Witness ==
    /\ Done(1)
    /\ strategy.max_retries = 2
    /\ cur_attempt[1] = 2
    /\ requests[1] = 3
    /\ \A i \in 1..3 : trace[1][i].exception # None
    /\ Get(result[1]).error_type = Some(TIMEOUT_ERROR)


-----------------------------------------------------------------------------
(* APIClient: the retry loop of _make_request and the validation of the    *)
(* public methods                                                          *)

\* a 429 response with a Retry-After header holding an integer >= 0
RateLimitedWithHeader(o) ==
    /\ IsStatus(o, 429)
    /\ headers_get(Get(o.response).headers, "Retry-After") # None
    /\ int(Get(headers_get(Get(o.response).headers, "Retry-After"))).ok
    /\ int(Get(headers_get(Get(o.response).headers, "Retry-After"))).value
           >= 0

\* C22: when every attempt of an APIClient request receives a 429 response
\* with a Retry-After header, the call returns success=False with
\* status_code 429.
C22_RateLimitStatus ==
    ( /\ Done(1)
      /\ trace[1] # <<>>
      /\ \A i \in 1..Len(trace[1]) : RateLimitedWithHeader(trace[1][i]) ) =>
        /\ Get(result[1]).success = FALSE
        /\ Get(result[1]).status_code = Some(429)

\* the 2xx status the upstream answers a method with
ExpectedStatus(op) ==
    CASE op = "create_user" -> 201
      [] op = "delete_user" -> 204
      [] OTHER -> 200

\* C23: a valid CRUD call whose upstream response is the 2xx status of its
\* method (200, 201 for create_user, 204 for delete_user; a body that
\* decodes where there is one) returns success=True.
C23_TwoXXSucceeds ==
    ( /\ Done(1)
      /\ Len(trace[1]) = 1
      /\ IsStatus(trace[1][1], ExpectedStatus(last.op))
      /\ (trace[1][1].json_ok \/ StatusOf(trace[1][1]) = 204) ) =>
        Get(result[1]).success = TRUE

ServerError(o) == o.response # None /\ StatusOf(o) >= 500

\* at least one outcome was received and all of them are 5xx responses
AllServerErrors ==
    /\ trace[1] # <<>>
    /\ \A i \in 1..Len(trace[1]) : ServerError(trace[1][i])

\* C24: when every attempt receives a 5xx response the client makes exactly
\* 3 requests and then returns success=False with the status of the last
\* response.
C24_ServerErrorsExhaust ==
    AllServerErrors =>
        /\ Len(trace[1]) < 3 => ~Done(1)
        /\ Done(1) =>
               /\ requests[1] = 3
               /\ Get(result[1]).success = FALSE
               /\ Get(result[1]).status_code = Some(StatusOf(trace[1][3]))

C24_Witness ==
    /\ Done(1)
    /\ AllServerErrors
    /\ requests[1] = 3
    /\ StatusOf(trace[1][1]) = 503
    /\ Get(result[1]).status_code = Some(500)
    /\ Get(result[1]).error = Some("Server error: 500")

\* C25: when the first response has status 401 the client makes exactly one
\* request and returns success=False, status_code 401, error
\* 'Authentication failed'.
C25_AuthFailure ==
    (trace[1] # <<>> /\ IsStatus(trace[1][1], 401)) =>
        /\ Done(1)
        /\ requests[1] = 1
        /\ result[1] = Some([success |-> FALSE, data |-> None,
                             error |-> Some("Authentication failed"),
                             status_code |-> Some(401)])

C25_Witness ==
    /\ Done(1)
    /\ last.op = "get_users"
    /\ requests[1] = 1
    /\ IsStatus(trace[1][1], 401)
    /\ Get(result[1]).error = Some("Authentication failed")

TimedOut(o) == isinstance(o.exception, "Timeout")

\* at least one outcome was received and all of them are timeouts
AllTimedOut ==
    /\ trace[1] # <<>>
    /\ \A i \in 1..Len(trace[1]) : TimedOut(trace[1][i])

\* C26: when every attempt raises a timeout the client returns
\* success=False with error 'Request timeout' after 3 attempts, and
\* nothing is raised to the caller.
C26_TimeoutsExhaust ==
    AllTimedOut =>
        /\ pc[1] # "raised"
        /\ Len(trace[1]) < 3 => ~Done(1)
        /\ Done(1) =>
               /\ requests[1] = 3
               /\ cur_attempt[1] = 2
               /\ Get(result[1]).success = FALSE
               /\ Get(result[1]).error = Some("Request timeout")

C26_Witness ==
    /\ Done(1)
    /\ AllTimedOut
    /\ requests[1] = 3
    /\ Get(result[1]).error = Some("Request timeout")
    /\ Get(result[1]).status_code = None

\* the method returned a failure with this message without any request
RejectedWith(msg) ==
    /\ Done(1)
    /\ requests[1] = 0
    /\ Get(result[1]).success = FALSE
    /\ Get(result[1]).error = Some(msg)

\* C27: get_user returns a failure and issues no request when user_id is
\* empty or not a string ('Invalid user ID') or when the stripped user_id
\* contains a non-alphanumeric character ('Invalid user ID format').
C27_GetUserValidation ==
    last.op = "get_user" =>
        LET u == last.args[1]
            stripped == strip(u.str)
        IN  /\ (u.type # "str" \/ u.str = <<>>) =>
                   RejectedWith("Invalid user ID")
            /\ ( /\ u.type = "str"
                 /\ \E i \in 1..Len(stripped) :
                        ~(stripped[i] \in Letters \/ IsDigit(stripped[i])) )
                   => RejectedWith("Invalid user ID format")

C27_Witness ==
    /\ last.op = "get_user"
    /\ last.args[1] = PyStr(<<" ", "a", "-">>)
    /\ RejectedWith("Invalid user ID format")

\* the dict has no value, or an empty one, under the key
MissingOrEmpty(d, key) ==
    \/ key \notin keys(d)
    \/ item(d, key) \in {PyNone, PyStr(<<>>)}

\* no '@' in the email, or no '.' after its last '@'
BadEmail(e) ==
    \/ e.type # "str"
    \/ \A i \in 1..Len(e.str) :
           e.str[i] = "@" =>
               \/ \E j \in (i + 1)..Len(e.str) : e.str[j] = "@"
               \/ \A j \in (i + 1)..Len(e.str) : e.str[j] # "."

\* C28: create_user returns a failure and issues no request when 'name' or
\* 'email' is missing or empty ('Missing required field: ...') or when the
\* email has no '@' or no '.' after the last '@' ('Invalid email format').
C28_CreateUserValidation ==
    last.op = "create_user" =>
        LET d == last.args[1]
        IN  /\ (MissingOrEmpty(d, "name") \/ MissingOrEmpty(d, "email")) =>
                   \/ RejectedWith("Missing required field: name")
                   \/ RejectedWith("Missing required field: email")
            /\ ( /\ "name" \in keys(d) /\ py_truthy(item(d, "name"))
                 /\ ~MissingOrEmpty(d, "email")
                 /\ BadEmail(item(d, "email")) ) =>
                   RejectedWith("Invalid email format")


-----------------------------------------------------------------------------
(* Pagination *)

\* C29: list_all_items with page_size >= 1 yields the items of the upstream
\* store in upstream order, each exactly once, following next_cursor until
\* a page has none: what it has yielded is always a prefix of the store,
\* and when it ends every seeded item (every item, if none was created
\* meanwhile) has been yielded.
C29_ListsEveryItemOnce ==
    page_pc \in {"fetch", "done"} =>
        /\ Len(yielded) <= Len(FAKE_DB)
        /\ yielded = SubSeq(FAKE_DB, 1, Len(yielded))
        /\ \A i, j \in 1..Len(yielded) : yielded[i] = yielded[j] => i = j
        /\ page_pc = "done" =>
               /\ \A i \in 1..Len(FAKE_DB) :
                      FAKE_DB[i] = SeededItem(i) =>
                          \E j \in 1..Len(yielded) : yielded[j] = FAKE_DB[i]
               /\ (\A i \in 1..Len(FAKE_DB) : FAKE_DB[i] = SeededItem(i)) =>
                      yielded = FAKE_DB

C29_Witness ==
    /\ page_pc = "done"
    /\ page_size = 2
    /\ next_cursor = Some(4)
    /\ Len(FAKE_DB) = 5
    /\ yielded = FAKE_DB


-----------------------------------------------------------------------------
(* The error handler in the response path *)

\* C31: in the response path handle_error never vetoes a retry the policy
\* allowed: whenever should_retry was true for the classified error of a
\* response (a server or rate_limit error), handle_error returns True, also
\* when the registered callback raises, and the flow does not return that
\* error as its result.
C31_HandlerNeverVetoes ==
    (decision[1].retry = Some(TRUE) /\ ~decision[1].handler) =>
        LET err == Get(decision[1].error)
        IN  /\ err.error_type \in {SERVER_ERROR, RATE_LIMIT_ERROR}
            /\ handle_error(err)
            /\ result[1] # Some(failure_with_status(err))

C31_Witness ==
    /\ pc[1] = "delay"
    /\ decision[1].retry = Some(TRUE)
    /\ ~decision[1].handler
    /\ callback_raises(Get(decision[1].error))
    /\ Get(decision[1].error).retry_after = Some(-5)


\* C32: list_all_items terminates for every integer page_size the GET /items
\* route accepts, 0 and negative values included: the cursors it requests
\* from the upstream are strictly increasing (and so reach a page with
\* next_cursor = None).
C32_CursorsIncrease ==
    \A i, j \in 1..Len(cursors) :
        (i < j /\ cursors[i] # None /\ cursors[j] # None) =>
            Get(cursors[i]) < Get(cursors[j])

-----------------------------------------------------------------------------
(* The mock upstream's create_item *)

\* C33: after any number of create_item calls, under every interleaving of
\* concurrent calls, the items of FAKE_DB have pairwise distinct ids.
C33_DistinctIds ==
    \A i, j \in 1..Len(FAKE_DB) : FAKE_DB[i].id = FAKE_DB[j].id => i = j


-----------------------------------------------------------------------------
(* ExternalApiClient._get and _post *)

\* the outcomes the claim calls transient
Transient(outcome) ==
    IF outcome.exception # None
    THEN Get(outcome.exception).cls \in {"ConnectError", "ReadTimeout"}
    ELSE Get(outcome.response).status_code \in {429, 500, 502, 503, 504}

\* a 4xx response other than 429
ClientError(outcome) ==
    /\ outcome.response # None
    /\ Get(outcome.response).status_code \in 400..499
    /\ Get(outcome.response).status_code # 429

\* C34: _get and _post make at most 3 HTTP attempts per call and retry only
\* transient outcomes (429, 500, 502, 503, 504, connect error, read
\* timeout): every outcome followed by another attempt was transient, and a
\* 401, 403 or other non-429 4xx response is attempted exactly once and its
\* error is raised to the caller.
C34_RetriesOnlyTransient ==
    /\ requests[1] <= 3
    /\ \A i \in 1..(Len(trace[1]) - 1) : Transient(trace[1][i])
    /\ (trace[1] # <<>> /\ ClientError(trace[1][1])) =>
           /\ requests[1] = 1
           /\ pc[1] = "raised"
           /\ result[1] # None
           /\ Get(result[1]).exception =
                  Some(HTTPStatusError(Get(trace[1][1].response)))


=============================================================================
